---- MODULE Spec2Model ----
\* Model of src/index.js: the Lambda request handler of the product catalog
\* (DynamoDB table "products", Polly speech synthesis, S3 audio upload).
\* Every invocation of exports.handler is a process; each await of the handler
\* is one step, at which the awaited service either answers or rejects.
EXTENDS Integers, Sequences, FiniteSets, TLC

\* ---------------------------------------------------------------- bounds
\* handler invocations that may be in flight at once
NumProcs == 2
\* invocations in one behaviour
MaxCalls == 3
\* keys of the table: the path ids of PUT and DELETE and the uuids of POST
NumIds == 2

Procs == 1..NumProcs

\* ---------------------------------------------------------------- JS values
\* Strings are sequences of one-character strings, so that toLowerCase,
\* parseInt, parseFloat and contains work on their characters. undefined and
\* null are sequences no string equals.
Undefined == <<"#undefined">>
Null == <<"#null">>

\* A number: NaN, or a whole part and the digits of its fraction
NaN == [nan |-> TRUE, whole |-> 0, frac |-> <<>>]
Num(w, f) == [nan |-> FALSE, whole |-> w, frac |-> f]

Digits == {"0", "1", "2", "3", "4", "5", "6", "7", "8", "9"}

DigitVal(c) ==
    CASE c = "0" -> 0 [] c = "1" -> 1 [] c = "2" -> 2 [] c = "3" -> 3
      [] c = "4" -> 4 [] c = "5" -> 5 [] c = "6" -> 6 [] c = "7" -> 7
      [] c = "8" -> 8 [] c = "9" -> 9

\* String.prototype.toLowerCase on one character
LowerChar(c) ==
    CASE c = "M" -> "m" [] c = "U" -> "u" [] c = "G" -> "g"
      [] OTHER -> c

\* productname.toLowerCase()
ToLowerCase(s) == [i \in 1..Len(s) |-> LowerChar(s[i])]

\* length of the longest run of digits of s starting at from
RECURSIVE DigitRun(_, _)
DigitRun(s, from) ==
    IF from <= Len(s) /\ s[from] \in Digits THEN 1 + DigitRun(s, from + 1) ELSE 0

\* value of the digits s[from..from+n-1]
RECURSIVE DigitsValue(_, _, _)
DigitsValue(s, from, n) ==
    IF n = 0 THEN 0
    ELSE 10 * DigitsValue(s, from, n - 1) + DigitVal(s[from + n - 1])

\* parseInt(x, 10): the leading digits of a string, NaN when there are none
\* (undefined and null have none)
ParseInt(x) ==
    IF x \in {Undefined, Null} THEN NaN
    ELSE LET n == DigitRun(x, 1)
         IN IF n = 0 THEN NaN ELSE Num(DigitsValue(x, 1, n), <<>>)

\* parseFloat(x): leading digits, then an optional "." and digits
ParseFloat(x) ==
    IF x \in {Undefined, Null} THEN NaN
    ELSE LET n == DigitRun(x, 1)
             m == IF n + 1 <= Len(x) /\ x[n + 1] = "." THEN DigitRun(x, n + 2) ELSE 0
         IN IF n = 0 THEN NaN
            ELSE Num(DigitsValue(x, 1, n), SubSeq(x, n + 2, n + 1 + m))

\* isNaN
IsNaN(x) == x.nan

\* JavaScript falsiness of a string, undefined or null
Falsy(x) == x \in {Undefined, Null, <<>>}

\* DynamoDB contains(searchname, :s): :s is a substring of searchname
Contains(s, t) ==
    \E i \in 0..(Len(s) - Len(t)) : SubSeq(s, i + 1, i + Len(t)) = t

\* ---------------------------------------------------------------- inputs
\* productid values: opaque strings
Ids == {<<"id", n>> : n \in 1..NumIds}
\* position of a key in the order the table scans its keys
KeyPos(id) == id[2]

Mug == <<"M", "u", "g">>
Cup == <<"c", "u", "p">>
Alice == <<"a", "l">>
Bob == <<"b", "o">>

\* event.body: no body, text that is not JSON, the JSON text of null, or the
\* JSON text of an object with these members
NoBody == [kind |-> "absent", productname |-> Undefined, quantity |-> Undefined,
           price |-> Undefined, user |-> Undefined]
GarbageBody == [NoBody EXCEPT !.kind = "garbage"]
NullBody == [NoBody EXCEPT !.kind = "null"]
\* bodies that pass the validation: one of a known user, one of no user
MugBody(u) ==
    [kind |-> "object", productname |-> Mug, quantity |-> <<"3">>,
     price |-> <<"9", ".", "5">>, user |-> u]
CupBody(u) ==
    [kind |-> "object", productname |-> Cup, quantity |-> <<"7", "x">>,
     price |-> <<"1", "2">>, user |-> u]
ValidBodies(u) == {MugBody(u), CupBody(Undefined)}
\* bodies with one member missing, empty or not a number
InvalidBodies(u) ==
    {[MugBody(u) EXCEPT !.productname = Undefined],
     [MugBody(u) EXCEPT !.productname = <<>>],
     [MugBody(u) EXCEPT !.quantity = <<"x">>],
     [MugBody(u) EXCEPT !.price = <<"a">>]}
Bodies(u) ==
    {NoBody, GarbageBody, NullBody} \cup ValidBodies(u) \cup InvalidBodies(u)

\* The Authorization header: absent, or a token with or without the "Bearer "
\* prefix, cut by "." into segments, whose second segment decodes to JSON
\* claims or to text that is not JSON.
NoClaims == [json |-> FALSE, email |-> Undefined, username |-> Undefined,
             preferred |-> Undefined]
Claims(e, u, f) == [json |-> TRUE, email |-> e, username |-> u, preferred |-> f]
NoHeader == [present |-> FALSE, bearer |-> FALSE, segments |-> 0, payload |-> NoClaims]
Token(b, n, c) == [present |-> TRUE, bearer |-> b, segments |-> n, payload |-> c]
AliceToken == Token(TRUE, 3, Claims(Alice, Bob, Undefined))
AuthHeaders ==
    {NoHeader,
     AliceToken,
     Token(FALSE, 3, Claims(Undefined, Bob, Alice)),
     Token(TRUE, 2, Claims(Alice, Undefined, Undefined)),
     Token(TRUE, 3, NoClaims)}

Event(m, id, q, h, b) ==
    [httpMethod |-> m, id |-> id, search |-> q, Authorization |-> h, body |-> b]

\* The events of the model: each method with the inputs its branch reads, and
\* with bodies that do and do not parse.
Events ==
    {Event("GET", Undefined, Undefined, h, NoBody) : h \in AuthHeaders}
    \cup {Event("GET", Undefined, <<"u">>, AliceToken, NoBody),
          Event("GET", Undefined, Undefined, AliceToken, GarbageBody)}
    \cup {Event("POST", Undefined, Undefined, NoHeader, b) : b \in Bodies(Alice)}
    \cup {Event("PUT", id, Undefined, NoHeader, b) :
            id \in Ids \cup {Undefined}, b \in ValidBodies(Bob)}
    \cup {Event("PUT", <<"id", 1>>, Undefined, NoHeader, b) : b \in Bodies(Bob)}
    \cup {Event("DELETE", id, Undefined, NoHeader, NoBody) : id \in Ids \cup {Undefined}}
    \cup {Event("DELETE", <<"id", 1>>, Undefined, NoHeader, GarbageBody)}
    \cup {Event("OPTIONS", Undefined, Undefined, NoHeader, b) :
            b \in {NoBody, GarbageBody, NullBody, CupBody(Undefined)}}
    \cup {Event("PATCH", Undefined, Undefined, NoHeader, NoBody)}

\* ---------------------------------------------------------------- responses
\* the object {}
EmptyObject == "{}"

\* JSON.stringify(v): the JSON text of v
JSONStringify(v) == <<"json", v>>

CorsHeaders ==
    [acao |-> "*", acam |-> "GET,POST,PUT,DELETE,OPTIONS",
     acah |-> "Content-Type,X-Amz-Date,Authorization,X-Api-Key,X-Amz-Security-Token"]

formatResponse(statusCode, body) ==
    [statusCode |-> statusCode,
     headers |-> [ct |-> "application/json", acao |-> CorsHeaders.acao,
                  acam |-> CorsHeaders.acam, acah |-> CorsHeaders.acah],
     body |-> JSONStringify(body)]

\* the two responses of the GET branch
GetResponse(statusCode, body) ==
    [statusCode |-> statusCode,
     headers |-> [ct |-> "application/json", acao |-> "*"],
     body |-> JSONStringify(body)]

\* the 204 of the DELETE branch: no Content-Type, no body
DeleteResponse ==
    [statusCode |-> 204, headers |-> CorsHeaders]

\* mutant of OuterCatch: the failure of a service is passed on as 502
OuterCatchBadGateway(error) ==
    formatResponse(502, [message |-> <<"Internal Server Error: ", error>>])

\* catch (error) of the handler
OuterCatch(error) ==
    formatResponse(500, [message |-> <<"Internal Server Error: ", error>>])

\* catch (error) of the GET branch
GetCatch(error) ==
    GetResponse(500, [message |-> <<"Failed to retrieve products: ", error>>])

\* getUserEmailFromToken
getUserEmailFromToken(h) ==
    IF ~h.present THEN Null
    ELSE IF h.segments # 3 THEN Null
    ELSE IF ~h.payload.json THEN Null
    ELSE IF ~Falsy(h.payload.email) THEN h.payload.email
    ELSE IF ~Falsy(h.payload.username) THEN h.payload.username
    ELSE IF ~Falsy(h.payload.preferred) THEN h.payload.preferred
    ELSE Null

\* ---------------------------------------------------------------- state
VARIABLES
    store,   \* the table "products": productid -> item, for the keys that have one
    audio,   \* the bucket "ecom-polly-audio": <<productid, ".mp3">> key -> text spoken
    used,    \* productids already generated by uuidv4 or named by a request
    clock,   \* new Date(): the time of the next POST
    calls,   \* invocations started so far
    pc,      \* per invocation: the await it is suspended at
    ev,      \* per invocation: its event
    loc,     \* per invocation: the handler's local variables
    resp,    \* per invocation: the responses it has returned
    hist,    \* per invocation: what happened in it (history)
    gone     \* keys deleted with a 204 and not written since (history)

vars == <<store, audio, used, clock, calls, pc, ev, loc, resp, hist, gone>>

\* a free slot: no event, no locals
NoEvent == Event("NONE", Undefined, Undefined, NoHeader, NoBody)
NoLoc == [none |-> TRUE]

NewHist ==
    [failed |-> "none",     \* the service whose call was rejected, or "throw"
     existed |-> FALSE,     \* the key had an item when the table ran the command
     ran |-> FALSE,         \* the table ran the invocation's write or delete
     synth |-> FALSE,       \* Polly answered
     pages |-> 0,           \* pages the scan has received
     stable |-> TRUE,       \* the table has not changed since the scan began
     tomb |-> {}]           \* keys that were in gone when the scan began

Init ==
    /\ store = <<>>
    /\ audio = <<>>
    /\ used = {}
    /\ clock = 1
    /\ calls = 0
    /\ pc = [p \in Procs |-> "idle"]
    /\ ev = [p \in Procs |-> NoEvent]
    /\ loc = [p \in Procs |-> NoLoc]
    /\ resp = [p \in Procs |-> <<>>]
    /\ hist = [p \in Procs |-> NewHist]
    /\ gone = {}

\* ---------------------------------------------------------------- the table
\* PutCommand: the item replaces whatever the key had
TablePut(t, item) ==
    [k \in DOMAIN t \cup {item.productid} |->
        IF k = item.productid THEN item ELSE t[k]]

\* mutant of UpdatedItem: the update replaces the item by the key and the
\* attributes set, as a PutCommand would
UpdatedItemReplaces(t, key, sets) ==
    [a \in {"productid"} \cup DOMAIN sets |->
        IF a = "productid" THEN key ELSE sets[a]]

\* UpdateCommand with "set ..." and no condition: the attributes are set on the
\* item of the key, which is created when the key has none (index.js:234)
UpdatedItem(t, key, sets) ==
    LET old == IF key \in DOMAIN t THEN t[key] ELSE [productid |-> key]
    IN [a \in DOMAIN old \cup DOMAIN sets |->
            IF a \in DOMAIN sets THEN sets[a] ELSE old[a]]

TableUpdate(t, key, sets) ==
    [k \in DOMAIN t \cup {key} |->
        IF k = key THEN UpdatedItem(t, key, sets) ELSE t[k]]

\* mutant of TableDelete: the item stays
TableDeleteKeeps(t, key) == t

\* DeleteCommand
TableDelete(t, key) == [k \in DOMAIN t \ {key} |-> t[k]]

\* FilterExpression "userId = :u" and, with a search term,
\* " AND contains(searchname, :s)"
Matches(item, user, searchTerm) ==
    /\ "userId" \in DOMAIN item
    /\ item.userId = user
    /\ Falsy(searchTerm) \/ Contains(item.searchname, searchTerm)

\* The items of one page: the table reads its keys in order from after
\* ExclusiveStartKey up to upTo and returns those that pass the filter.
RECURSIVE PageItems(_, _, _, _, _)
PageItems(t, from, upTo, user, searchTerm) ==
    IF from >= upTo THEN <<>>
    ELSE LET k == <<"id", from + 1>>
             rest == PageItems(t, from + 1, upTo, user, searchTerm)
         IN IF k \in DOMAIN t /\ Matches(t[k], user, searchTerm)
            THEN <<t[k]>> \o rest
            ELSE rest

\* ---------------------------------------------------------------- handler
\* `${productid}.mp3`
AudioKey(id) == id \o <<".mp3">>

\* JSON.parse(event.body) throws on text that is not JSON
BodyParses(b) == b.kind # "garbage"

\* event.body ? JSON.parse(event.body) : {} gave null, whose members cannot be read
BodyIsNull(b) == b.kind = "null"

\* !productname || isNaN(quantity) || isNaN(price)
InvalidFields(b) ==
    \/ Falsy(b.productname)
    \/ IsNaN(ParseInt(b.quantity))
    \/ IsNaN(ParseFloat(b.price))

\* An invocation may begin in a free slot: the first one, as the slots are
\* names of the invocations in flight and nothing else.
CanBegin(p) ==
    /\ pc[p] \in {"idle", "done"}
    /\ \A q \in Procs : q < p => pc[q] \notin {"idle", "done"}
    /\ calls < MaxCalls

\* One step of invocation p: it is now at `at` with event e, locals l,
\* responses r and history h[p]. An invocation that has returned is kept for
\* one step of the system; then its slot is free and its record is dropped.
Move(p, e, at, l, r, h) ==
    /\ pc' = [q \in Procs |-> IF q = p THEN at
                              ELSE IF pc[q] = "done" THEN "idle" ELSE pc[q]]
    /\ ev' = [q \in Procs |-> IF q = p THEN e
                              ELSE IF pc[q] = "done" THEN NoEvent ELSE ev[q]]
    /\ loc' = [q \in Procs |-> IF q = p THEN l
                               ELSE IF pc[q] = "done" THEN NoLoc ELSE loc[q]]
    /\ resp' = [q \in Procs |-> IF q = p THEN r
                                ELSE IF pc[q] = "done" THEN <<>> ELSE resp[q]]
    /\ hist' = [q \in Procs |-> IF q = p THEN h[p]
                                ELSE IF pc[q] = "done" THEN NewHist ELSE h[q]]

\* the handler returns r; its locals are gone
Return(p, r, h) == Move(p, ev[p], "done", NoLoc, Append(resp[p], r), h)

\* the handler returns r before its first await
ReturnAtOnce(p, e, r, failed) ==
    /\ Move(p, e, "done", NoLoc, <<r>>,
            [hist EXCEPT ![p] = [NewHist EXCEPT !.failed = failed]])
    /\ calls' = calls + 1
    /\ UNCHANGED <<store, audio, used, clock, gone>>

\* History: the item of key changed, so running scans no longer see one table,
\* and a written key is no longer one that was deleted and not written since.
Touched(h, key, written) ==
    [q \in Procs |->
        [h[q] EXCEPT !.stable = FALSE,
                     !.tomb = IF written THEN @ \ {key} ELSE @]]

\* catch of the handler around a rejected await of POST, PUT or DELETE
Reject(p, service) ==
    /\ Return(p, OuterCatch(service), [hist EXCEPT ![p].failed = service])
    /\ UNCHANGED <<store, audio, used, clock, calls, gone>>

\* const body = event.body ? JSON.parse(event.body) : {} throws (any method)
InvokeBadJson(p) ==
    \E e \in Events :
        /\ ~BodyParses(e.body)
        /\ CanBegin(p)
        /\ ReturnAtOnce(p, e, OuterCatch("SyntaxError"), "throw")

\* GET: the identity and the search term are read and the first scan is sent
InvokeGet(p) ==
    \E e \in Events :
        /\ e.httpMethod = "GET"
        /\ BodyParses(e.body)
        /\ CanBegin(p)
        /\ Move(p, e, "Scan",
                [user |-> getUserEmailFromToken(e.Authorization),
                 searchTerm |-> e.search,
                 items |-> <<>>,
                 exclusiveStartKey |-> 0],
                <<>>,
                [hist EXCEPT ![p] = [NewHist EXCEPT !.tomb = gone]])
        /\ calls' = calls + 1
        /\ UNCHANGED <<store, audio, used, clock, gone>>

\* const newItem = {...}. A member whose value is undefined (userId, when the
\* body has no user) is a member neither JSON.stringify nor the table keeps: the
\* item is built without it.
NewItem(id, body, now) ==
    LET item == [productid |-> id,
                 productname |-> body.productname,
                 quantity |-> ParseInt(body.quantity),
                 price |-> ParseFloat(body.price),
                 userId |-> body.user,
                 searchname |-> ToLowerCase(body.productname),
                 createdAt |-> now]
    IN IF body.user = Undefined
       THEN [a \in DOMAIN item \ {"userId"} |-> item[a]]
       ELSE item

\* uuidv4(): an id never seen before. Which unused id it is does not matter:
\* the first.
uuidv4(seen) ==
    {id \in Ids \ seen : \A other \in Ids \ seen : KeyPos(id) <= KeyPos(other)}

\* POST: validation, then newItem is built and the PutCommand is sent
InvokePost(p) ==
    \E e \in Events :
        /\ e.httpMethod = "POST"
        /\ BodyParses(e.body)
        /\ CanBegin(p)
        /\ IF BodyIsNull(e.body)
           THEN ReturnAtOnce(p, e, OuterCatch("TypeError"), "throw")
           ELSE IF InvalidFields(e.body)
           THEN ReturnAtOnce(p, e, formatResponse(400,
                    [message |-> "Missing productname, quantity, or price in request body"]),
                    "none")
           ELSE \E id \in uuidv4(used) :
                /\ Move(p, e, "PostPut",
                        [newItem |-> NewItem(id, e.body, clock),
                         productname |-> e.body.productname],
                        <<>>,
                        [hist EXCEPT ![p] = NewHist])
                /\ calls' = calls + 1
                /\ used' = used \cup {id}
                /\ clock' = clock + 1
                /\ UNCHANGED <<store, audio, gone>>

\* mutant of UpdateSets: searchname is not recomputed
UpdateSetsStaleSearchname(productname, quantity, price) ==
    [productname |-> productname,
     quantity |-> quantity,
     price |-> price]

\* the attributes the UpdateCommand sets
UpdateSets(productname, quantity, price) ==
    [productname |-> productname,
     quantity |-> quantity,
     price |-> price,
     searchname |-> ToLowerCase(productname)]

\* PUT: validation, then the UpdateCommand is sent
InvokePut(p) ==
    \E e \in Events :
        /\ e.httpMethod = "PUT"
        /\ BodyParses(e.body)
        /\ CanBegin(p)
        /\ IF BodyIsNull(e.body)
           THEN ReturnAtOnce(p, e, OuterCatch("TypeError"), "throw")
           ELSE IF Falsy(e.id) \/ InvalidFields(e.body)
           THEN ReturnAtOnce(p, e, formatResponse(400,
                    [message |-> "Missing product ID, productname, quantity, or price in request"]),
                    "none")
           ELSE /\ Move(p, e, "PutUpdate",
                        [productId |-> e.id,
                         productname |-> e.body.productname,
                         sets |-> UpdateSets(e.body.productname,
                                             ParseInt(e.body.quantity),
                                             ParseFloat(e.body.price))],
                        <<>>,
                        [hist EXCEPT ![p] = NewHist])
                /\ calls' = calls + 1
                /\ used' = used \cup {e.id}
                /\ UNCHANGED <<store, audio, clock, gone>>

\* DELETE: the path id is required, then the DeleteCommand is sent
InvokeDelete(p) ==
    \E e \in Events :
        /\ e.httpMethod = "DELETE"
        /\ BodyParses(e.body)
        /\ CanBegin(p)
        /\ IF Falsy(e.id)
           THEN ReturnAtOnce(p, e, formatResponse(400,
                    [message |-> "Missing product ID in path"]), "none")
           ELSE /\ Move(p, e, "Delete", [productId |-> e.id], <<>>,
                        [hist EXCEPT ![p] = NewHist])
                /\ calls' = calls + 1
                /\ used' = used \cup {e.id}
                /\ UNCHANGED <<store, audio, clock, gone>>

\* OPTIONS
InvokeOptions(p) ==
    \E e \in Events :
        /\ e.httpMethod = "OPTIONS"
        /\ BodyParses(e.body)
        /\ CanBegin(p)
        /\ ReturnAtOnce(p, e, formatResponse(200, EmptyObject), "none")

\* any other method
InvokeOther(p) ==
    \E e \in Events :
        /\ e.httpMethod \notin {"GET", "POST", "PUT", "DELETE", "OPTIONS"}
        /\ BodyParses(e.body)
        /\ CanBegin(p)
        /\ ReturnAtOnce(p, e, formatResponse(405, [message |-> "Method Not Allowed"]), "none")

\* ---------------------------------------------------------------- awaits
\* mutant of ScanPage: the first page is returned, LastEvaluatedKey is not read
ScanFirstPageOnly(p) ==
    /\ pc[p] = "Scan"
    /\ \E upTo \in loc[p].exclusiveStartKey..NumIds :
        LET items == PageItems(store, loc[p].exclusiveStartKey, upTo,
                               loc[p].user, loc[p].searchTerm)
        IN Return(p, GetResponse(200, items),
                  [hist EXCEPT ![p].pages = @ + 1])
    /\ UNCHANGED <<store, audio, used, clock, calls, gone>>

\* await docClient.send(new ScanCommand(params)): one page. The table reads
\* some of the keys after ExclusiveStartKey; LastEvaluatedKey is the last key
\* read, or nothing when the table has read them all.
ScanPage(p) ==
    /\ pc[p] = "Scan"
    /\ \E upTo \in loc[p].exclusiveStartKey..NumIds, more \in BOOLEAN :
        /\ more => upTo > loc[p].exclusiveStartKey
        /\ ~more => upTo = NumIds
        /\ LET page == PageItems(store, loc[p].exclusiveStartKey, upTo,
                                 loc[p].user, loc[p].searchTerm)
               items == loc[p].items \o page
           IN IF more
              THEN Move(p, ev[p], "Scan",
                        [loc[p] EXCEPT !.items = items, !.exclusiveStartKey = upTo],
                        resp[p], [hist EXCEPT ![p].pages = @ + 1])
              ELSE Return(p, GetResponse(200, items), [hist EXCEPT ![p].pages = @ + 1])
    /\ UNCHANGED <<store, audio, used, clock, calls, gone>>

\* the scan is rejected: the catch of the GET branch
ScanFails(p) ==
    /\ pc[p] = "Scan"
    /\ Return(p, GetCatch("dynamodb"), [hist EXCEPT ![p].failed = "dynamodb"])
    /\ UNCHANGED <<store, audio, used, clock, calls, gone>>

\* await docClient.send(new PutCommand({Item: newItem}))
PostPut(p) ==
    /\ pc[p] = "PostPut"
    /\ store' = TablePut(store, loc[p].newItem)
    /\ Move(p, ev[p], "PostSynth", loc[p], resp[p],
            [Touched(hist, loc[p].newItem.productid, TRUE) EXCEPT
                ![p].ran = TRUE,
                ![p].existed = loc[p].newItem.productid \in DOMAIN store])
    /\ gone' = gone \ {loc[p].newItem.productid}
    /\ UNCHANGED <<audio, used, clock, calls>>

PostPutFails(p) ==
    /\ pc[p] = "PostPut"
    /\ Reject(p, "dynamodb")

\* const {AudioStream} = await pollyClient.send(pollycommand), in POST: the
\* speech of input.Text
PostSynth(p) ==
    /\ pc[p] = "PostSynth"
    /\ Move(p, ev[p], "PostUpload",
            [newItem |-> loc[p].newItem, productname |-> loc[p].productname,
             AudioStream |-> loc[p].productname],
            resp[p], [hist EXCEPT ![p].synth = TRUE])
    /\ UNCHANGED <<store, audio, used, clock, calls, gone>>

\* mutant of PostSynthFails: the item written is deleted again
PostSynthFailsRollsBack(p) ==
    /\ pc[p] = "PostSynth"
    /\ Return(p, OuterCatch("polly"), [hist EXCEPT ![p].failed = "polly"])
    /\ store' = TableDelete(store, loc[p].newItem.productid)
    /\ UNCHANGED <<audio, used, clock, calls, gone>>

PostSynthFails(p) ==
    /\ pc[p] = "PostSynth"
    /\ Reject(p, "polly")

\* the bucket after the upload of stream under key
Uploaded(a, key, stream) ==
    [k \in DOMAIN a \cup {key} |-> IF k = key THEN stream ELSE a[k]]

\* await upload.done(), in POST; then return formatResponse(201, newItem)
PostUpload(p) ==
    /\ pc[p] = "PostUpload"
    /\ audio' = Uploaded(audio, AudioKey(loc[p].newItem.productid), loc[p].AudioStream)
    /\ Return(p, formatResponse(201, loc[p].newItem), hist)
    /\ UNCHANGED <<store, used, clock, calls, gone>>

PostUploadFails(p) ==
    /\ pc[p] = "PostUpload"
    /\ Reject(p, "s3")

\* const { Attributes } = await docClient.send(new UpdateCommand(...)), with
\* ReturnValues "ALL_NEW": the item as the update left it. if (!Attributes)
\* returns 404.
PutUpdate(p) ==
    /\ pc[p] = "PutUpdate"
    /\ store' = TableUpdate(store, loc[p].productId, loc[p].sets)
    /\ LET Attributes == UpdatedItem(store, loc[p].productId, loc[p].sets)
           l == [productId |-> loc[p].productId,
                 productname |-> loc[p].productname,
                 sets |-> loc[p].sets,
                 Attributes |-> Attributes]
           h == [Touched(hist, loc[p].productId, TRUE) EXCEPT
                    ![p].ran = TRUE,
                    ![p].existed = loc[p].productId \in DOMAIN store]
       IN IF DOMAIN Attributes = {}
          THEN Return(p, formatResponse(404,
                   [message |-> "Item not found for update (or issue updating)"]), h)
          ELSE Move(p, ev[p], "PutSynth", l, resp[p], h)
    /\ gone' = gone \ {loc[p].productId}
    /\ UNCHANGED <<audio, used, clock, calls>>

PutUpdateFails(p) ==
    /\ pc[p] = "PutUpdate"
    /\ Reject(p, "dynamodb")

\* const {AudioStream} = await pollyClient.send(pollycommand), in PUT
PutSynth(p) ==
    /\ pc[p] = "PutSynth"
    /\ Move(p, ev[p], "PutUpload",
            [productId |-> loc[p].productId,
             productname |-> loc[p].productname,
             sets |-> loc[p].sets,
             Attributes |-> loc[p].Attributes,
             AudioStream |-> loc[p].productname],
            resp[p], [hist EXCEPT ![p].synth = TRUE])
    /\ UNCHANGED <<store, audio, used, clock, calls, gone>>

PutSynthFails(p) ==
    /\ pc[p] = "PutSynth"
    /\ Reject(p, "polly")

\* await upload.done(), in PUT; then return formatResponse(200, Attributes)
PutUpload(p) ==
    /\ pc[p] = "PutUpload"
    /\ audio' = Uploaded(audio, AudioKey(loc[p].productId), loc[p].AudioStream)
    /\ Return(p, formatResponse(200, loc[p].Attributes), hist)
    /\ UNCHANGED <<store, used, clock, calls, gone>>

PutUploadFails(p) ==
    /\ pc[p] = "PutUpload"
    /\ Reject(p, "s3")

\* const { Attributes } = await docClient.send(new DeleteCommand(...)), with
\* ReturnValues "ALL_OLD": the item the key had, if it had one
Delete(p) ==
    /\ pc[p] = "Delete"
    /\ store' = TableDelete(store, loc[p].productId)
    /\ IF loc[p].productId \notin DOMAIN store
       THEN /\ Return(p,
                      formatResponse(404, [message |-> "Item not found for deletion"]),
                      [hist EXCEPT ![p].ran = TRUE, ![p].existed = FALSE])
            /\ UNCHANGED gone
       ELSE /\ Return(p, DeleteResponse,
                      [Touched(hist, loc[p].productId, FALSE) EXCEPT
                            ![p].ran = TRUE, ![p].existed = TRUE])
            /\ gone' = gone \cup {loc[p].productId}
    /\ UNCHANGED <<audio, used, clock, calls>>

DeleteFails(p) ==
    /\ pc[p] = "Delete"
    /\ Reject(p, "dynamodb")

Next ==
    \E p \in Procs :
        \/ InvokeBadJson(p)
        \/ InvokeGet(p)
        \/ InvokePost(p)
        \/ InvokePut(p)
        \/ InvokeDelete(p)
        \/ InvokeOptions(p)
        \/ InvokeOther(p)
        \/ ScanPage(p)
        \/ ScanFails(p)
        \/ PostPut(p)
        \/ PostPutFails(p)
        \/ PostSynth(p)
        \/ PostSynthFails(p)
        \/ PostUpload(p)
        \/ PostUploadFails(p)
        \/ PutUpdate(p)
        \/ PutUpdateFails(p)
        \/ PutSynth(p)
        \/ PutSynthFails(p)
        \/ PutUpload(p)
        \/ PutUploadFails(p)
        \/ Delete(p)
        \/ DeleteFails(p)

Spec == Init /\ [][Next]_vars

\* ---------------------------------------------------------------- claims
Done(p) == pc[p] = "done"
InFlight(p) == pc[p] \notin {"idle", "done"}
Status(p) == resp[p][1].statusCode
Method(p) == ev[p].httpMethod

\* the body is a JSON object whose members pass the validation
ValidBody(e) == e.body.kind = "object" /\ ~InvalidFields(e.body)

\* the body is JSON text, or absent, and a member the validation needs is
\* missing, empty or not a number
LacksFields(e) == BodyParses(e.body) /\ ~ValidBody(e)

\* a PUT with a path id and a valid body
ValidPut(e) == e.httpMethod = "PUT" /\ ~Falsy(e.id) /\ ValidBody(e)

\* invocation p begins in this step
Begins(p) == calls' = calls + 1 /\ pc[p] \in {"idle", "done"} /\ pc'[p] # "idle"

\* the productids of a list of items
RECURSIVE IdsOf(_)
IdsOf(items) ==
    IF items = <<>> THEN {} ELSE {Head(items).productid} \cup IdsOf(Tail(items))

\* C1 (as claimed): a PUT with a valid body whose path id names no item, none
\* of whose service calls fails, is answered 404.
C1_PutOfMissingIs404 ==
    \A p \in Procs :
        (Done(p) /\ ValidPut(ev[p]) /\ hist[p].ran /\ ~hist[p].existed
            /\ hist[p].failed = "none")
        => Status(p) = 404

\* C2 (as claimed): a POST or PUT whose body lacks productname, or whose
\* quantity or price is not a number, is answered 400 and changes neither the
\* table nor the bucket, and sends nothing to Polly.
C2_InvalidIs400 ==
    [][\A p \in Procs :
        (Begins(p) /\ ev'[p].httpMethod \in {"POST", "PUT"} /\ LacksFields(ev'[p]))
        => /\ pc'[p] = "done"
           /\ resp'[p][1].statusCode = 400
           /\ store' = store
           /\ audio' = audio]_vars

\* C3 (as claimed): every PUT with a valid body whose path id names an item is
\* answered 200.
C3_PutOfExistingIs200 ==
    \A p \in Procs :
        (Done(p) /\ ValidPut(ev[p]) /\ hist[p].ran /\ hist[p].existed)
        => Status(p) = 200

\* C3 (amended): when the table runs the update of a PUT with a valid body on
\* a key that has an item, the item keeps its attributes other than
\* productname, quantity, price and searchname (so productid, userId and
\* createdAt are as before), these four take the values of the input, and
\* the image returned is the stored item; and when no service call of the
\* invocation fails, the answer is 200 with that image.
C3_PutKeepsAndSets ==
    [][\A p \in Procs :
        /\ (pc[p] = "PutUpdate" /\ pc'[p] = "PutSynth" /\ loc[p].productId \in DOMAIN store)
           => LET old == store[loc[p].productId]
                  new == store'[loc[p].productId]
                  b == ev[p].body
              IN /\ loc'[p].Attributes = new
                 /\ DOMAIN new = DOMAIN old
                 /\ \A a \in DOMAIN old \ {"productname", "quantity", "price", "searchname"} :
                        new[a] = old[a]
                 /\ new.productid = loc[p].productId
                 /\ new.productname = b.productname
                 /\ new.quantity = ParseInt(b.quantity)
                 /\ new.price = ParseFloat(b.price)
                 /\ new.searchname = ToLowerCase(b.productname)
        /\ (pc[p] = "PutUpload" /\ pc'[p] = "done" /\ hist'[p].failed = "none"
                /\ hist[p].existed)
           => /\ resp'[p][1].statusCode = 200
              /\ resp'[p][1].body = JSONStringify(loc[p].Attributes)]_vars

\* C3 witness: a PUT of "cup" on an item that Alice created as "Mug" has been
\* answered 200.
C3_Witness ==
    \E p \in Procs :
        /\ Done(p) /\ ValidPut(ev[p]) /\ hist[p].existed /\ Status(p) = 200
        /\ "userId" \in DOMAIN resp[p][1].body[2]
        /\ resp[p][1].body[2].userId = Alice
        /\ resp[p][1].body[2].productname = Cup

\* the statuses of section 6 of the specification
Statuses == {200, 201, 204, 400, 404, 405, 500}

\* how far an invocation is: every step at an await moves it forward
Rank(at, l) ==
    CASE at = "idle" -> 0
      [] at = "Scan" -> 1 + l.exclusiveStartKey
      [] at \in {"PostPut", "PutUpdate", "Delete"} -> 1
      [] at \in {"PostSynth", "PutSynth"} -> 2
      [] at \in {"PostUpload", "PutUpload"} -> 3
      [] at = "done" -> NumIds + 4

\* C4: an invocation returns exactly one response, with a status of the
\* interface, whatever the event and whichever service call is rejected; it
\* has returned nothing while it is suspended; a rejected call or a thrown
\* exception is answered 500; and every step of a suspended invocation of its
\* own moves it forward, so that it returns after finitely many answers of the services.
C4_OneResponse ==
    [][\A p \in Procs :
        /\ pc'[p] = "done"
           => /\ Len(resp'[p]) = 1
              /\ resp'[p][1].statusCode \in Statuses
              /\ hist'[p].failed # "none" => resp'[p][1].statusCode = 500
        /\ pc'[p] \notin {"idle", "done"} => resp'[p] = <<>>
        /\ (InFlight(p) /\ <<pc[p], loc[p]>> # <<pc'[p], loc'[p]>>)
           => Rank(pc'[p], loc'[p]) > Rank(pc[p], loc[p])]_vars

\* C4 witness: an invocation whose upload was rejected has returned 500.
C4_Witness ==
    \E p \in Procs : Done(p) /\ hist[p].failed = "s3" /\ Status(p) = 500

\* C5 (as claimed): every OPTIONS event is answered 200 with the body {} and
\* without a call to the table, to Polly or to the bucket.
C5_OptionsIs200 ==
    \A p \in Procs :
        (pc[p] # "idle" /\ Method(p) = "OPTIONS")
        => /\ Done(p)
           /\ Status(p) = 200
           /\ resp[p][1].body = JSONStringify(EmptyObject)
           /\ ~hist[p].ran /\ ~hist[p].synth

\* C6 (as claimed): every DELETE with a path id is answered 204 without a body
\* when the key had an item, and 404 otherwise.
C6_DeleteIs204Or404 ==
    \A p \in Procs :
        (Done(p) /\ Method(p) = "DELETE" /\ ~Falsy(ev[p].id) /\ BodyParses(ev[p].body))
        => \/ Status(p) = 204 /\ "body" \notin DOMAIN resp[p][1] /\ hist[p].existed
           \/ Status(p) = 404 /\ ~hist[p].existed

\* C6 (amended): when the table runs the delete of a DELETE with a path id,
\* the answer is 204 without a body if the key had an item and 404 if it had
\* none, and the key has no item afterwards; when the table rejects the delete,
\* the answer is 500 and the table is as before; and a scan that began after a
\* 204 returns no item of the deleted key, unless the key was written since.
C6_DeleteThenList ==
    [][\A p \in Procs :
        /\ (pc[p] = "Delete" /\ pc'[p] = "done" /\ hist'[p].ran)
           => LET id == loc[p].productId
                  r == resp'[p][1]
              IN /\ id \in DOMAIN store => r.statusCode = 204 /\ "body" \notin DOMAIN r
                 /\ id \notin DOMAIN store => r.statusCode = 404
                 /\ id \notin DOMAIN store'
        /\ (pc[p] = "Delete" /\ pc'[p] = "done" /\ ~hist'[p].ran)
           => resp'[p][1].statusCode = 500 /\ store' = store
        /\ (pc[p] = "Scan" /\ pc'[p] = "done" /\ resp'[p][1].statusCode = 200)
           => IdsOf(resp'[p][1].body[2]) \cap hist[p].tomb = {}]_vars

\* C6 witness: a list that began after a 204, the key not written since, has
\* been answered 200.
C6_Witness ==
    \E p \in Procs :
        Done(p) /\ Method(p) = "GET" /\ Status(p) = 200 /\ hist[p].tomb # {}

\* the keys whose item has the userId user
OwnedBy(t, user) ==
    {k \in DOMAIN t : "userId" \in DOMAIN t[k] /\ t[k].userId = user}

\* C7: a scan without a search term that the table answers to the end, the
\* table not changing meanwhile, is answered 200 with the items whose userId
\* is the identity of the Authorization header: each of them once, as stored,
\* and no other; the loop goes on with the LastEvaluatedKey of the table,
\* which is further each time.
C7_ListIsExact ==
    [][\A p \in Procs :
        /\ (pc[p] = "Scan" /\ pc'[p] = "done" /\ hist'[p].failed = "none"
                /\ hist[p].stable /\ Falsy(ev[p].search))
           => LET r == resp'[p][1]
                  items == r.body[2]
                  mine == OwnedBy(store, getUserEmailFromToken(ev[p].Authorization))
              IN /\ r.statusCode = 200
                 /\ IdsOf(items) = mine
                 /\ Len(items) = Cardinality(mine)
                 /\ \A i \in 1..Len(items) : items[i] = store[items[i].productid]
        /\ (pc[p] = "Scan" /\ pc'[p] = "Scan" /\ hist'[p].pages > hist[p].pages)
           => loc'[p].exclusiveStartKey > loc[p].exclusiveStartKey]_vars

\* C7 witness: a list of two items that came in two pages or more.
C7_Witness ==
    \E p \in Procs :
        /\ Done(p) /\ Method(p) = "GET" /\ Status(p) = 200
        /\ hist[p].stable /\ Falsy(ev[p].search)
        /\ hist[p].pages >= 2
        /\ Len(resp[p][1].body[2]) = 2

\* C8: the searchname of every stored item is its productname in lower case.
C8_SearchnameIsLowercase ==
    \A k \in DOMAIN store :
        /\ "searchname" \in DOMAIN store[k]
        /\ store[k].searchname = ToLowerCase(store[k].productname)

\* C8 witness: an item created as "cup" was renamed "Mug" by a PUT; its
\* searchname differs from its productname.
C8_Witness ==
    \E p \in Procs :
        /\ pc[p] = "PutSynth" /\ hist[p].existed
        /\ loc[p].productId \in DOMAIN store
        /\ "createdAt" \in DOMAIN store[loc[p].productId]
        /\ store[loc[p].productId].productname = Mug
        /\ store[loc[p].productId].searchname # Mug

\* C9 (as claimed): every response has the three cross-origin headers, and
\* Content-Type: application/json unless its status is 204.
C9_HeadersOnEveryResponse ==
    \A p \in Procs :
        Done(p)
        => LET h == resp[p][1].headers
           IN /\ {"acao", "acam", "acah"} \subseteq DOMAIN h
              /\ h.acao = "*"
              /\ Status(p) # 204 => "ct" \in DOMAIN h /\ h.ct = "application/json"

\* the key an invocation of POST or PUT writes
TargetId(p) ==
    IF Method(p) = "POST" THEN loc[p].newItem.productid ELSE loc[p].productId

\* C10: in a POST or PUT, Polly is called only after the table ran the write,
\* and the upload only after Polly answered; the bucket changes only by the
\* upload of <productid>.mp3 of an invocation whose write the table ran; and
\* when Polly or the upload is rejected the answer is 500 and the table is as
\* the write left it.
C10_WriteSynthUpload ==
    [][\A p \in Procs :
        /\ pc'[p] \in {"PostSynth", "PutSynth"} => hist'[p].ran /\ ~hist'[p].synth
        /\ pc'[p] \in {"PostUpload", "PutUpload"} => hist'[p].ran /\ hist'[p].synth
        /\ (pc[p] \in {"PostPut", "PutUpdate"} /\ hist'[p].ran /\ ~hist[p].ran)
           => TargetId(p) \in DOMAIN store'
        /\ audio' # audio
           => \E q \in Procs :
                /\ pc[q] \in {"PostUpload", "PutUpload"}
                /\ hist[q].ran /\ hist[q].synth
                /\ DOMAIN audio' = DOMAIN audio \cup {AudioKey(TargetId(q))}
        /\ (pc[p] \in {"PostSynth", "PutSynth", "PostUpload", "PutUpload"}
                /\ pc'[p] = "done" /\ hist'[p].failed # "none")
           => /\ resp'[p][1].statusCode = 500
              /\ store' = store
              /\ audio' = audio]_vars

\* C10 witness: a POST whose write the table ran and whose synthesis was
\* rejected has been answered 500, and its item is in the table.
C10_Witness ==
    \E p \in Procs :
        /\ Done(p) /\ Method(p) = "POST" /\ hist[p].failed = "polly"
        /\ Status(p) = 500
        /\ \E k \in DOMAIN store :
            "createdAt" \in DOMAIN store[k] /\ AudioKey(k) \notin DOMAIN audio

====
